---- MODULE Spec2Model ----
(***************************************************************************)
(* A model of World (src/lib.rs): the cell-to-bitmap index, the optional   *)
(* point R-tree and the segment R-tree, with one action per public method. *)
(*                                                                         *)
(* Coordinates are integers (the f64 arithmetic of the source is exact on  *)
(* them).  A cell id has the layout of s2::cellid::CellID on one face, with *)
(* LeafLevel levels instead of 30: two position bits per level, then a     *)
(* single 1 bit, then zeros.  An R-tree is the collection of its items    *)
(* (the point tree the list given to bulk_load, the segment tree a bag):   *)
(* where the answer of the source depends on the arrangement of the tree   *)
(* (ties of distance, order of iteration) the model takes every outcome.   *)
(***************************************************************************)
EXTENDS Integers, Sequences, FiniteSets, Bags, TLC

VARIABLES cellid_map, min_level, max_level, tree, shape_tree,
          call, ret, inserted, built, lastBuild, dropped

world == <<cellid_map, min_level, max_level, tree, shape_tree>>
\* call and ret are the last call and what it returned; inserted, built,
\* lastBuild and dropped record the arguments of the insert and build calls
\* (dropped: the last build call left out a record of the build before it)
history == <<inserted, built, lastBuild, dropped>>
vars == <<cellid_map, min_level, max_level, tree, shape_tree,
          call, ret, inserted, built, lastBuild, dropped>>

(***************************************************************************)
(* Bounds and input sets                                                   *)
(***************************************************************************)
LeafLevel == 2
MaxInserts == 2
MaxPoints == 2
MaxSegments == 4
MaxShapes == 3
MaxRadius == 2

\* within_radius: radius / 111.0
KmPerDeg == 111

Ids == {1, 2}
Levels == 0..LeafLevel

\* points given to insert and within_radius
CellCoords == {<<0, 0>>, <<1, 2>>, <<2, 1>>, <<3, 0>>, <<3, 3>>}
\* the (coords, radius) pairs given to within_radius, radius in km
CapQueries == {<<c, 0>> : c \in CellCoords} \cup {<<<<0, 0>>, KmPerDeg>>}
\* coordinates of point records and of nearest queries
PointCoords == {<<0, 0>>, <<0, 1>>}
\* the points and radii of the shape queries
ShapeQueries == {<<0, 0>>, <<0, 4>>, <<1, 1>>}
ShapeRadii == (-1)..MaxRadius

(***************************************************************************)
(* s2 cell ids                                                             *)
(***************************************************************************)
RECURSIVE Pow2(_)
Pow2(n) == IF n = 0 THEN 1 ELSE 2 * Pow2(n - 1)

GridSize == Pow2(LeafLevel)
Grid == (0..(GridSize - 1)) \X (0..(GridSize - 1))

\* the bits of i and j interleaved, i first: the position of leaf (i, j)
RECURSIVE Interleave(_, _, _)
Interleave(i, j, n) ==
    IF n = 0 THEN 0
    ELSE 4 * Interleave(i \div 2, j \div 2, n - 1) + 2 * (i % 2) + (j % 2)

\* CellID::from(LatLng): the leaf cell of a point
FromLatLng(coords) == 2 * Interleave(coords[1], coords[2], LeafLevel) + 1

lsb_for_level(lvl) == Pow2(2 * (LeafLevel - lvl))

\* CellID::parent(level): (id & -lsb) | lsb, whatever the level of id
parent(id, lvl) ==
    LET b == lsb_for_level(lvl)
        masked == id - (id % b)
    IN  IF (masked \div b) % 2 = 1 THEN masked ELSE masked + b

(***************************************************************************)
(* Bitmaps and the cell-to-bitmap mapping                                  *)
(***************************************************************************)
Lookup(map, key) == IF key \in DOMAIN map THEN map[key] ELSE {}

\* entry(key).or_insert_with(Bitmap::default).add(item_id)
AddTo(map, key, item_id) ==
    [k \in DOMAIN map \cup {key} |->
        IF k = key THEN Lookup(map, k) \cup {item_id} ELSE map[k]]

\* the loop of insert: id is carried from one level to the next
RECURSIVE InsertLoop(_, _, _, _, _)
InsertLoop(map, id, i, last, item_id) ==
    IF i > last THEN map
    ELSE LET next == parent(id, i)
         IN  InsertLoop(AddTo(map, next, item_id), next, i + 1, last, item_id)

\* planar squared distance of two points
squared_euclidean_distance(p1, p2) ==
    LET dx == p1[1] - p2[1]
        dy == p1[2] - p2[2]
    IN  dx * dx + dy * dy

\* the leaf points of the cap of within_radius: radius / 111 degrees around coords
CapPoints(coords, radius) ==
    {p \in Grid :
        KmPerDeg * KmPerDeg * squared_euclidean_distance(p, coords) <= radius * radius}

\* RegionCoverer::covering: cells of levels min_level..max_level that hold the
\* cap between them, at most max_cells of them when the levels allow it
Coverings(coords, radius, lo, hi, max_cells) ==
    LET cap == CapPoints(coords, radius)
        Cover(f) == {parent(FromLatLng(p), f[p]) : p \in cap}
        coarsest == Cover([p \in cap |-> lo])
    IN  {coarsest} \cup
        {S \in {Cover(f) : f \in [cap -> lo..hi]} : Cardinality(S) <= max_cells}

\* Bitmap::fast_or_heap of the bitmaps of the covering's cells
UnionOver(map, cells) == UNION {Lookup(map, c) : c \in cells}

(***************************************************************************)
(* The point R-tree                                                        *)
(***************************************************************************)
\* TreePoint(lat, lon, id)
PointRecords == {<<c[1], c[2], id>> : c \in PointCoords, id \in Ids}
PointLists == UNION {[1..n -> PointRecords] : n \in 0..MaxPoints}
Limits == 0..MaxPoints

distance_2_LatOnly(tp, point) ==
    LET dx == tp[1] - point[1]
    IN  dx * dx

\* PointDistance::distance_2 of TreePoint
distance_2(tp, point) ==
    LET dx == tp[1] - point[1]
        dy == tp[2] - point[2]
    IN  dx * dx + dy * dy

Ok(v) == [kind |-> "Ok", val |-> v]
Err(msg) == [kind |-> "Err", msg |-> msg]
NotBuilt == Err("No tree found")
NoResult == Err("No result")

\* RTree::nearest_neighbor: an item at the least distance, None on an empty tree
NearestNeighbor(items, point) ==
    {k \in 1..Len(items) :
        \A j \in 1..Len(items) : distance_2(items[k], point) <= distance_2(items[j], point)}

nearest_NoResultAsNotBuilt(t, point, limit) ==
    IF t.tag = "None" \/ NearestNeighbor(t.items, point) = {} THEN {NotBuilt}
    ELSE {Ok(t.items[k][3]) : k \in NearestNeighbor(t.items, point)}

\* the results nearest can give
nearest(t, point, limit) ==
    IF t.tag = "None" THEN {NotBuilt}
    ELSE IF NearestNeighbor(t.items, point) = {} THEN {NoResult}
    ELSE {Ok(t.items[k][3]) : k \in NearestNeighbor(t.items, point)}

\* RTree::nearest_neighbor_iter: every item once, by non-decreasing distance
NearestNeighborIter(items, point) ==
    {f \in [1..Len(items) -> 1..Len(items)] :
        /\ \A i, j \in 1..Len(items) : i # j => f[i] # f[j]
        /\ \A i, j \in 1..Len(items) :
              i < j => distance_2(items[f[i]], point) <= distance_2(items[f[j]], point)}

Take(n, limit) == IF limit < n THEN limit ELSE n

nearest_vec_EmptyWhenNone(t, point, limit) ==
    IF t.tag = "None" THEN {Ok(<<>>)}
    ELSE {Ok([i \in 1..Take(Len(t.items), limit) |-> t.items[f[i]][3]]) :
            f \in NearestNeighborIter(t.items, point)}

\* the results nearest_vec can give
nearest_vec(t, point, limit) ==
    IF t.tag = "None" THEN {NotBuilt}
    ELSE {Ok([i \in 1..Take(Len(t.items), limit) |-> t.items[f[i]][3]]) :
            f \in NearestNeighborIter(t.items, point)}

(***************************************************************************)
(* The segment R-tree                                                      *)
(***************************************************************************)
\* GeomWithData::new(Line::new(a, b), item_id)
Segment(a, b, item_id) == <<a, b, item_id>>

\* the polylines given to insert_shape, and those of the lists of insert_shapes
ShapePolys == {<<>>, <<<<0, 0>>>>, <<<<0, 0>>, <<0, 2>>>>, <<<<0, 2>>, <<0, 0>>, <<0, 0>>>>}
ListPolys == {<<<<0, 0>>>>, <<<<0, 2>>, <<0, 0>>, <<0, 0>>>>}
ShapeLists == UNION {[1..n -> ListPolys] : n \in 0..MaxShapes}

RECURSIVE InsertChunks(_, _, _, _)
InsertChunks(t, coords, i, item_id) ==
    IF i + 1 > Len(coords) THEN t
    ELSE InsertChunks(t (+) SetToBag({Segment(coords[i], coords[i + 1], item_id)}),
                      coords, i + 2, item_id)

\* for line in coords.windows(2) { shape_tree.insert(..) }
RECURSIVE InsertWindows(_, _, _, _)
InsertWindows(t, coords, i, item_id) ==
    IF i + 1 > Len(coords) THEN t
    ELSE InsertWindows(t (+) SetToBag({Segment(coords[i], coords[i + 1], item_id)}),
                       coords, i + 1, item_id)

RECURSIVE InsertShapesSkipShort(_, _, _, _)
InsertShapesSkipShort(t, shapes, k, item_id) ==
    IF k > Len(shapes) THEN t
    ELSE IF Len(shapes[k]) < 2 THEN InsertShapesSkipShort(t, shapes, k + 1, item_id)
    ELSE InsertShapesSkipShort(InsertWindows(t, shapes[k], 1, item_id), shapes, k + 1, item_id)

\* the loop of insert_shapes, left at the first polyline of fewer than 2 points
RECURSIVE InsertShapesLoop(_, _, _, _)
InsertShapesLoop(t, shapes, k, item_id) ==
    IF k > Len(shapes) THEN t
    ELSE IF Len(shapes[k]) < 2 THEN t
    ELSE InsertShapesLoop(InsertWindows(t, shapes[k], 1, item_id), shapes, k + 1, item_id)

Dot(u, v) == u[1] * v[1] + u[2] * v[2]
Sub(u, v) == <<u[1] - v[1], u[2] - v[2]>>

\* PointDistance::distance_2 of Line, as the fraction <<numerator, denominator>>:
\* the point is projected on the line and the projection clamped to the segment
LineDistance2(seg, point) ==
    LET p1 == seg[1]
        p2 == seg[2]
        dir == Sub(p2, p1)
        len2 == Dot(dir, dir)
        d == Dot(Sub(point, p1), dir)
    IN  IF len2 = 0 THEN <<squared_euclidean_distance(point, p2), 1>>
        ELSE IF d <= 0 THEN <<squared_euclidean_distance(point, p1), 1>>
        ELSE IF d >= len2 THEN <<squared_euclidean_distance(point, p2), 1>>
        ELSE <<squared_euclidean_distance(point, p1) * len2 - d * d, len2>>

FracLeq(x, y) == x[1] * y[2] <= y[1] * x[2]

\* the bag of the ids of the segments of S, each as often as t holds it
RECURSIVE IdsOf(_, _)
IdsOf(t, S) ==
    IF S = {} THEN EmptyBag
    ELSE LET seg == CHOOSE x \in S : TRUE
         IN  [i \in {seg[3]} |-> CopiesIn(seg, t)] (+) IdsOf(t, S \ {seg})

\* RTree::nearest_neighbors: the segments at the least distance
NearestSegments(t, point) ==
    {seg \in BagToSet(t) :
        \A other \in BagToSet(t) :
            FracLeq(LineDistance2(seg, point), LineDistance2(other, point))}

\* RTree::locate_within_distance(point, max_squared_radius)
LocateWithinDistance(t, point, max_squared_radius) ==
    {seg \in BagToSet(t) : FracLeq(LineDistance2(seg, point), <<max_squared_radius, 1>>)}

shapes_within_radius_Unsquared(t, point, radius) ==
    IdsOf(t, LocateWithinDistance(t, point, radius))

\* the ids shapes_within_radius returns, as a bag
shapes_within_radius(t, point, radius) ==
    IdsOf(t, LocateWithinDistance(t, point, radius * radius))

Unit == [kind |-> "unit"]
NoCall == [op |-> "new"]
None == [tag |-> "None"]
Some(x) == [tag |-> "Some", items |-> x]

\* World::new(min_level, max_level)
New(lo, hi) ==
    /\ min_level = lo
    /\ max_level = hi
    /\ cellid_map = <<>>
    /\ tree = None
    /\ shape_tree = EmptyBag
    /\ call = NoCall
    /\ ret = Unit
    /\ inserted = {}
    /\ built = FALSE
    /\ lastBuild = <<>>
    /\ dropped = FALSE

Init == \E lo, hi \in Levels : lo <= hi /\ New(lo, hi)

\* World::default(): new(9, 12), on the levels of the model
Default == New(LeafLevel - 1, LeafLevel)

Insert(C, I) ==
    \E coords \in C, item_id \in I :
        /\ Cardinality(inserted \cup {<<coords, item_id>>}) <= MaxInserts
        /\ cellid_map' = InsertLoop(cellid_map, FromLatLng(coords),
                                    min_level, max_level, item_id)
        /\ inserted' = inserted \cup {<<coords, item_id>>}
        /\ call' = [op |-> "insert", coords |-> coords, item_id |-> item_id]
        /\ ret' = Unit
        /\ UNCHANGED <<min_level, max_level, tree, shape_tree, built, lastBuild, dropped>>

WithinRadius(Q, M) ==
    \E q \in Q, max_cells \in M :
      LET coords == q[1]
          radius == q[2]
      IN
        \E cell_union \in Coverings(coords, radius, min_level, max_level, max_cells) :
            /\ ret' = [kind |-> "bitmap", val |-> UnionOver(cellid_map, cell_union)]
            /\ call' = [op |-> "within_radius", coords |-> coords, radius |-> radius,
                        max_cells |-> max_cells]
            /\ UNCHANGED <<world, history>>

BuildMerge(L) ==
    \E points \in L :
        /\ tree' = Some((IF tree.tag = "None" THEN <<>> ELSE tree.items) \o points)
        /\ built' = TRUE
        /\ lastBuild' = points
        /\ dropped' = \E i \in 1..Len(lastBuild) : \A k \in 1..Len(points) : points[k] # lastBuild[i]
        /\ call' = [op |-> "build", points |-> points]
        /\ ret' = Unit
        /\ UNCHANGED <<cellid_map, min_level, max_level, shape_tree, inserted>>

\* build_reverse_geocode_index(points)
Build(L) ==
    \E points \in L :
        /\ tree' = Some(points)
        /\ built' = TRUE
        /\ lastBuild' = points
        /\ dropped' = \E i \in 1..Len(lastBuild) : \A k \in 1..Len(points) : points[k] # lastBuild[i]
        /\ call' = [op |-> "build", points |-> points]
        /\ ret' = Unit
        /\ UNCHANGED <<cellid_map, min_level, max_level, shape_tree, inserted>>

Nearest(Q, Lim) ==
    \E point \in Q, limit \in Lim :
        /\ ret' \in nearest(tree, point, limit)
        /\ call' = [op |-> "nearest", coords |-> point, limit |-> limit]
        /\ UNCHANGED <<world, history>>

NearestVec(Q, Lim) ==
    \E point \in Q, limit \in Lim :
        /\ ret' \in nearest_vec(tree, point, limit)
        /\ call' = [op |-> "nearest_vec", coords |-> point, limit |-> limit]
        /\ UNCHANGED <<world, history>>

InsertShape(P, I) ==
    \E coords \in P, item_id \in I :
        /\ shape_tree' = IF Len(coords) < 2 THEN shape_tree
                         ELSE InsertWindows(shape_tree, coords, 1, item_id)
        /\ BagCardinality(shape_tree') <= MaxSegments
        /\ call' = [op |-> "insert_shape", coords |-> coords, item_id |-> item_id]
        /\ ret' = Unit
        /\ UNCHANGED <<cellid_map, min_level, max_level, tree, history>>

InsertShapes(PL, I) ==
    \E shapes \in PL, item_id \in I :
        /\ shape_tree' = InsertShapesLoop(shape_tree, shapes, 1, item_id)
        /\ BagCardinality(shape_tree') <= MaxSegments
        /\ call' = [op |-> "insert_shapes", shapes |-> shapes, item_id |-> item_id]
        /\ ret' = Unit
        /\ UNCHANGED <<cellid_map, min_level, max_level, tree, history>>

NearestShape(Q) ==
    \E point \in Q :
        /\ ret' \in IF NearestSegments(shape_tree, point) = {} THEN {None}
                    ELSE {Some(seg[3]) : seg \in NearestSegments(shape_tree, point)}
        /\ call' = [op |-> "nearest_shape", coords |-> point]
        /\ UNCHANGED <<world, history>>

NearestShapes(Q) ==
    \E point \in Q :
        /\ ret' = IF NearestSegments(shape_tree, point) = {} THEN None
                  ELSE Some(IdsOf(shape_tree, NearestSegments(shape_tree, point)))
        /\ call' = [op |-> "nearest_shapes", coords |-> point]
        /\ UNCHANGED <<world, history>>

ShapesWithinRadius(Q, R) ==
    \E point \in Q, radius \in R :
        /\ ret' = [kind |-> "ids", val |-> shapes_within_radius(shape_tree, point, radius)]
        /\ call' = [op |-> "shapes_within_radius", coords |-> point, radius |-> radius]
        /\ UNCHANGED <<world, history>>

\* every operation of World, on few inputs
Next ==
    \/ Insert({<<1, 2>>}, Ids)
    \/ WithinRadius({<<<<1, 2>>, 0>>}, {1})
    \/ Build(UNION {[1..n -> {<<0, 0, 1>>, <<0, 1, 2>>}] : n \in 0..MaxPoints})
    \/ Nearest({<<0, 0>>}, {1})
    \/ NearestVec({<<0, 0>>}, {0, 2})
    \/ InsertShape({<<>>, <<<<0, 0>>, <<0, 2>>>>}, {1})
    \/ InsertShapes({<<>>, <<<<<<0, 0>>, <<0, 2>>>>>>, <<<<<<0, 0>>>>, <<<<0, 0>>, <<0, 2>>>>>>}, {1})
    \/ NearestShape({<<0, 0>>})
    \/ NearestShapes({<<0, 0>>})
    \/ ShapesWithinRadius({<<0, 4>>}, {1, 2})

Spec == Init /\ [][Next]_vars

NextCell ==
    \/ Insert(CellCoords, Ids)
    \/ WithinRadius(CapQueries, 1..2)

SpecCell == Init /\ [][NextCell]_vars

NextPoint ==
    \/ Build(PointLists)
    \/ Nearest(PointCoords, Limits)
    \/ NearestVec(PointCoords, Limits)

SpecPoint == Default /\ [][NextPoint]_vars

\* the shape operations, on a World that may hold a point and a built tree
NextShape ==
    \/ Insert({<<1, 2>>}, {1})
    \/ Build({<<<<0, 0, 1>>>>})
    \/ InsertShape(ShapePolys, Ids)
    \/ InsertShapes(ShapeLists, Ids)
    \/ NearestShape(ShapeQueries)
    \/ NearestShapes(ShapeQueries)
    \/ ShapesWithinRadius(ShapeQueries, ShapeRadii)

SpecShape == Default /\ [][NextShape]_vars

(***************************************************************************)
(* Claims about the cell-to-bitmap index                                   *)
(***************************************************************************)
\* CellID::lsb: the lowest set bit of a cell id
RECURSIVE lsb(_)
lsb(id) == IF id % 2 = 1 THEN 1 ELSE 2 * lsb(id \div 2)

RECURSIVE LevelOfLsb(_)
LevelOfLsb(b) == IF b <= 1 THEN LeafLevel ELSE LevelOfLsb(b \div 4) - 1

\* CellID::level
level(id) == LevelOfLsb(lsb(id))

RECURSIVE IsPow4(_)
IsPow4(b) == b = 1 \/ (b % 4 = 0 /\ IsPow4(b \div 4))

\* CellID::is_valid: the lowest set bit is at an even position
is_valid(id) == id >= 1 /\ id < 2 * Pow2(2 * LeafLevel) /\ IsPow4(lsb(id))

range_min(id) == id - (lsb(id) - 1)
range_max(id) == id + (lsb(id) - 1)

\* CellID::contains, for a leaf cell
contains(id, leaf) == range_min(id) <= leaf /\ leaf <= range_max(id)

Cells == {id \in 1..(2 * Pow2(2 * LeafLevel) - 1) : is_valid(id)}

\* the unique cell of level lvl that contains the point
Ancestor(coords, lvl) ==
    CHOOSE c \in Cells : level(c) = lvl /\ contains(c, FromLatLng(coords))

\* C1: after insert(coords, id), for every level L in [min_level, max_level]
\* the bitmap stored under the level-L ancestor of the point's leaf cell
\* contains id, in every later state.
C1_EveryAncestorHoldsId ==
    \A p \in inserted : \A lvl \in min_level..max_level :
        p[2] \in Lookup(cellid_map, Ancestor(p[1], lvl))

\* C2: with exactly one point inserted, within_radius(coords, 0, max_cells)
\* at that point returns a bitmap that contains its id, whatever the covering.
C2_RadiusZeroFindsPoint ==
    (/\ call.op = "within_radius"
     /\ call.radius = 0
     /\ Cardinality(inserted) = 1
     /\ \E p \in inserted : p[1] = call.coords)
        => \A p \in inserted : p[2] \in ret.val

\* C3: every key of the mapping is a cell of a level in [min_level, max_level],
\* and an id is in the bitmap of cell C only if some insert(coords, id) was
\* made with coords inside C.
C3_OnlyContainingCells ==
    \A key \in DOMAIN cellid_map :
        /\ is_valid(key)
        /\ level(key) \in min_level..max_level
        /\ \A id \in cellid_map[key] :
              \E p \in inserted : p[2] = id /\ contains(key, FromLatLng(p[1]))

\* the part of C3 that holds: the keys are cells of the levels of the World
KeysAreCellsInRange ==
    \A key \in DOMAIN cellid_map :
        is_valid(key) /\ level(key) \in min_level..max_level

(***************************************************************************)
(* Claims about the segment R-tree                                         *)
(***************************************************************************)
RECURSIVE SumCopies(_, _)
SumCopies(t, S) ==
    IF S = {} THEN 0
    ELSE LET seg == CHOOSE x \in S : TRUE
         IN  CopiesIn(seg, t) + SumCopies(t, S \ {seg})

\* the stored segments whose squared distance from point is at most d2
SegmentsWithin(point, d2) ==
    {seg \in BagToSet(shape_tree) : FracLeq(LineDistance2(seg, point), <<d2, 1>>)}

\* ret holds one id for each stored segment of hit, and nothing else
ReturnsIdsOf(hit) ==
    /\ ret.kind = "ids"
    /\ BagToSet(ret.val) = {seg[3] : seg \in hit}
    /\ \A id \in {seg[3] : seg \in hit} :
          CopiesIn(id, ret.val) = SumCopies(shape_tree, {seg \in hit : seg[3] = id})

\* C4, as stated: shapes_within_radius(coords, radius) returns the ids of
\* exactly the stored segments whose squared distance from coords is at most
\* radius (radius, not negative, is taken as already squared).
C4_RadiusAlreadySquared ==
    (call.op = "shapes_within_radius" /\ call.radius >= 0)
        => ReturnsIdsOf(SegmentsWithin(call.coords, call.radius))

\* C4, amended: shapes_within_radius(coords, radius) squares radius itself
\* and returns the ids of exactly the stored segments whose squared distance
\* from coords is at most radius * radius.
C4_RadiusSquaredByCall ==
    call.op = "shapes_within_radius"
        => ReturnsIdsOf(SegmentsWithin(call.coords, call.radius * call.radius))

\* a segment farther than radius (squared distance) but within radius * radius is returned
C4_Witness ==
    /\ call.op = "shapes_within_radius"
    /\ call.radius = 2
    /\ \E seg \in SegmentsWithin(call.coords, 4) :
          /\ seg \notin SegmentsWithin(call.coords, 2)
          /\ seg[3] \in BagToSet(ret.val)

\* the bag of the segments at the positions pos of the polylines of shapes
SegmentsAt(shapes, pos, id) ==
    LET At(p) == <<shapes[p[1]][p[2]], shapes[p[1]][p[2] + 1], id>>
    IN  [seg \in {At(p) : p \in pos} |-> Cardinality({p \in pos : At(p) = seg})]

\* the consecutive point pairs of the first n polylines of shapes
PairsOfFirst(shapes, n) ==
    UNION {{<<k, i>> : i \in 1..(Len(shapes[k]) - 1)} : k \in 1..n}

\* the polylines of shapes before the first one of fewer than 2 points
BeforeFirstShort(shapes) ==
    LET short == {k \in 1..Len(shapes) : Len(shapes[k]) < 2}
    IN  IF short = {} THEN Len(shapes)
        ELSE (CHOOSE k \in short : \A j \in short : k <= j) - 1

\* C7: insert_shapes(list, id) inserts every segment of the polylines before
\* the first polyline of fewer than 2 points under id, and nothing of that
\* polyline or of a later one; with no such polyline it inserts the whole
\* list.  It reports no failure and changes nothing else.
C7_InsertShapesStopsAtFirstShort ==
    [][call'.op = "insert_shapes" =>
          /\ shape_tree' = shape_tree (+)
                SegmentsAt(call'.shapes,
                           PairsOfFirst(call'.shapes, BeforeFirstShort(call'.shapes)),
                           call'.item_id)
          /\ ret' = Unit
          /\ UNCHANGED <<cellid_map, min_level, max_level, tree>>]_vars

\* insert_shapes was given a valid polyline, a short one and a valid one, and
\* the tree holds the segments of the first alone
C7_Witness ==
    /\ call.op = "insert_shapes"
    /\ Len(call.shapes) = 3
    /\ Len(call.shapes[1]) >= 2
    /\ Len(call.shapes[2]) < 2
    /\ Len(call.shapes[3]) >= 2
    /\ shape_tree = SegmentsAt(call.shapes, PairsOfFirst(call.shapes, 1), call.item_id)

\* C8: insert_shape(polyline, id) with N points changes nothing of World when
\* N < 2; when N >= 2 it adds the N-1 segments (p[i], p[i+1]), all under id,
\* and leaves the stored segments, the cell mapping and the point tree alone.
C8_InsertShapeAddsConsecutivePairs ==
    [][call'.op = "insert_shape" =>
          LET p == call'.coords
              N == Len(p)
          IN  /\ N < 2 => UNCHANGED world
              /\ N >= 2 =>
                    /\ shape_tree' = shape_tree (+)
                          SegmentsAt(<<p>>, {<<1, i>> : i \in 1..(N - 1)}, call'.item_id)
                    /\ BagCardinality(shape_tree') = BagCardinality(shape_tree) + N - 1
                    /\ UNCHANGED <<cellid_map, min_level, max_level, tree>>]_vars

\* a polyline of 3 points was inserted into a World that holds a point, a
\* built tree and an earlier segment
C8_Witness ==
    /\ call.op = "insert_shape"
    /\ Len(call.coords) = 3
    /\ BagCardinality(shape_tree) > 2
    /\ cellid_map # <<>>
    /\ tree # None

(***************************************************************************)
(* Claims about the point R-tree                                           *)
(***************************************************************************)
QueryPoints == PointCoords

\* C5: while no build call was made, nearest and nearest_vec return NotBuilt
\* for every coords and limit; after a build call they never return it.
C5_NotBuiltUntilBuild ==
    /\ \A point \in QueryPoints, limit \in Limits :
          IF built
          THEN /\ NotBuilt \notin nearest(tree, point, limit)
               /\ NotBuilt \notin nearest_vec(tree, point, limit)
          ELSE /\ nearest(tree, point, limit) = {NotBuilt}
               /\ nearest_vec(tree, point, limit) = {NotBuilt}
    /\ call.op \in {"nearest", "nearest_vec"} => (ret = NotBuilt <=> ~built)

\* nearest_vec failed with NotBuilt after inserts of points and of shapes
C5_Witness ==
    /\ call.op = "nearest_vec"
    /\ ret = NotBuilt
    /\ ~built
    /\ inserted # {}
    /\ shape_tree # EmptyBag

IdsOfSeq(q) == [id \in {q[k] : k \in 1..Len(q)} |-> Cardinality({k \in 1..Len(q) : q[k] = id})]

\* C6: the point records nearest and nearest_vec answer from are those of the
\* list of the most recent build call: no record of an earlier build is left,
\* and no other operation adds, removes or changes one.
C6_AnswersFromLastBuild ==
    /\ ~built => tree = None
    /\ built =>
          /\ tree = Some(lastBuild)
          /\ \A point \in QueryPoints :
                /\ \A r \in nearest_vec(tree, point, Len(lastBuild) + 1) :
                      /\ r.kind = "Ok"
                      /\ IdsOfSeq(r.val) = IdsOfSeq([k \in 1..Len(lastBuild) |-> lastBuild[k][3]])
                /\ \A r \in nearest(tree, point, 1) :
                      r.kind = "Ok" => \E k \in 1..Len(lastBuild) : r.val = lastBuild[k][3]

\* a query after a second build that dropped a record of the first, with an
\* insert of a point and of a shape made in between
C6_Witness ==
    /\ call.op = "nearest_vec"
    /\ dropped
    /\ lastBuild # <<>>
    /\ inserted # {}
    /\ shape_tree # EmptyBag

Distinct(q) == \A i, j \in 1..Len(q) : i # j => q[i] # q[j]

SameCoords(rec, point) == rec[1] = point[1] /\ rec[2] = point[2]

\* C9, as stated: after build(points) with distinct records, nearest at the
\* coordinates of points[k] returns points[k].id, for every k, also when two
\* records share their coordinates.
C9_ExactSelfLookup ==
    (call.op = "nearest" /\ built /\ Distinct(lastBuild)) =>
        \A k \in 1..Len(lastBuild) :
            SameCoords(lastBuild[k], call.coords) => ret = Ok(lastBuild[k][3])

\* C9, amended: nearest at the coordinates of points[k] returns the id of a
\* record at those coordinates: points[k].id when no other record shares them.
C9_SelfLookupUpToTies ==
    (call.op = "nearest" /\ built /\ Distinct(lastBuild)) =>
        \A k \in 1..Len(lastBuild) :
            SameCoords(lastBuild[k], call.coords) =>
                /\ ret.kind = "Ok"
                /\ \E j \in 1..Len(lastBuild) :
                      SameCoords(lastBuild[j], call.coords) /\ ret.val = lastBuild[j][3]

\* nearest was asked at coordinates two distinct records share
C9_Witness ==
    /\ call.op = "nearest"
    /\ Distinct(lastBuild)
    /\ \E i, j \in 1..Len(lastBuild) :
          /\ lastBuild[i][3] # lastBuild[j][3]
          /\ SameCoords(lastBuild[i], call.coords)
          /\ SameCoords(lastBuild[j], call.coords)
          /\ ret = Ok(lastBuild[i][3])

\* C10: after a build with an empty list nearest returns NoResult, a failure
\* value other than NotBuilt; after a build with a non-empty list it returns
\* the id of a stored point record.
C10_NoResultOnEmptyBuild ==
    /\ NoResult # NotBuilt
    /\ built => \A point \in QueryPoints, limit \in Limits :
          IF lastBuild = <<>>
          THEN nearest(tree, point, limit) = {NoResult}
          ELSE \A r \in nearest(tree, point, limit) :
                  r.kind = "Ok" /\ \E k \in 1..Len(lastBuild) : r.val = lastBuild[k][3]
    /\ (call.op = "nearest" /\ built) =>
          IF lastBuild = <<>> THEN ret = NoResult
          ELSE ret.kind = "Ok" /\ \E k \in 1..Len(lastBuild) : ret.val = lastBuild[k][3]

\* nearest failed with NoResult on a tree built from an empty list
C10_Witness ==
    /\ call.op = "nearest"
    /\ built
    /\ lastBuild = <<>>
    /\ tree = Some(<<>>)
    /\ ret = NoResult
====
